---- MODULE Spec2Model ----
(***************************************************************************)
(* Model of the vr-display-sync relay (server.js): the client table, the   *)
(* single-wall flag, registration, routing, disconnection and shutdown.    *)
(* One action per event-loop callback; a callback is one atomic step,      *)
(* because the relay runs on a single-threaded event loop.                 *)
(***************************************************************************)
EXTENDS Integers, Sequences, FiniteSets, TLC

\* ------------------------------------------------------------------ bounds
\* number of websocket connections the relay accepts in one run
MaxConns == 3
\* number of session IDs uuidv4() hands out in one run
MaxRegs == 3
\* the same two bounds for the runs that send every kind of envelope
RouteConns == 2
RouteRegs == 2

Conns == 1..MaxConns
\* the JavaScript null (no websocket)
Null == 0
\* an absent or falsy property of a parsed envelope
Missing == "<missing>"

VARIABLES
    connectedClients,   \* the Map ws -> {type, userID}, in insertion order
    wallRegistered,     \* let wallRegistered
    isShuttingDown,     \* let isShuttingDown
    readyState,         \* ws.readyState of every connection ("NONE" before it exists)
    nextID,             \* the next userID uuidv4() returns
    proc,               \* the process: running, the stage of handleShutdown, or exited
    drainPos,           \* position of handleShutdown's Map iterator
    awaiting,           \* the websocket whose 'close' handleShutdown awaits
    last,               \* the callback that ran in the last step
    sent,               \* the sendMessage calls of the last step, in order
    membershipLog,      \* per websocket, every NEW_CLIENT / CLIENT_DISCONNECTED passed to sendMessage
    displayLost,        \* "lost" from the removal of a WALL entry to the next WALL registration
                        \* handled, "retaken" right after that registration, else "none"
    reports             \* per websocket, how many dimension reports of the wall page
                        \* (DisplayReport) the relay wrote to it (2 stands for two or more)

\* The session proxy of one browser page (src/clientManager.js): its module
\* variables, and per registerToServer call the socket, promise and timer of the call.
VARIABLES
    connectionState,    \* let connectionState
    cmClientType,       \* let clientType
    cmWs,               \* let ws: the call whose socket it holds, Null for null
    socketState,        \* readyState of the socket each call opened ("NONE": no socket)
    listening,          \* whether the socket of a call still has its on* handlers
    promise,            \* the promise each call returned
    timer,              \* the registration timeout of each call
    opened,             \* registrationResolver / registrationRejector of a call are set
    cmLast,             \* the proxy callback or API call that ran in the last step
    cmSent,             \* what the last step passed to WebSocket.send, in order
    cmRan               \* the handlers of the page (eventActions) the last step called, in
                        \* order, each with what getConnectionState() returned during the call

\* The VR page (src/unnamed/part_007, and sendVRState of src/unnamed/part_008): its
\* calibration flags, what a frame publishes and what it calls in the game.
VARIABLES
    calibrated,         \* let calibrated
    screenRect,         \* whether screenRect holds a mesh (FALSE for null)
    screenWidth,        \* let screenWidth, 0 for null
    screenHeight,       \* let screenHeight, 0 for null
    aspectRatio,        \* whether aspectRatio holds a number (FALSE for null); the number
                        \* is screenWidth / screenHeight
    gameStartedVR,      \* let gameStartedVR
    latestScreenState,  \* let latestScreenState: right and left
    resuming,           \* onFrame is suspended at its await of gameAPI.startVR
    startVRCalls,       \* how often gameAPI.startVR was called (2 stands for two or more)
    commits,            \* how many CALIBRATION_COMMIT the page sent (2 stands for two or more)
    vrLast,             \* the callback of the page that ran in the last step
    vrSent,             \* the VR_CONTROLLER_STATE envelopes sendVRState sent in the last step
    topLeftCorner,      \* let topLeftCorner
    bottomRightCorner,  \* let bottomRightCorner
    rectXDistance,      \* let rectXDistance, in tenths of a metre
    rectYDistance,      \* let rectYDistance, a ratio of tenths of a metre
    curvedScreenTemplate, \* whether led_wall.glb is loaded (FALSE for null)
    widgets,            \* whether spawnWidgets has put the confirm ball in the visible widgetGroup
    retries,            \* the messages of the pending retry timers of handleCalibration
    gesture,            \* what the trigger of the right controller did in the last step:
                        \* "confirm" when it went down on the confirm ball in Editing
    commitSent,         \* the CALIBRATION_COMMIT envelopes the last step passed to cm.sendMessage
    committed,          \* the rectangle of the last CALIBRATION_COMMIT sent
    grabbedWidget,      \* whether grabbedWidget holds a widget (FALSE for null)
    grabState,          \* let grabState: the corners copied when the grab began
    trigger             \* whether the trigger of the right controller was held in the last frame

relaySide == <<connectedClients, wallRegistered, isShuttingDown, readyState, nextID,
               proc, drainPos, awaiting, last, sent, membershipLog, displayLost, reports>>

proxySide == <<connectionState, cmClientType, cmWs, socketState, listening, promise,
               timer, opened, cmLast, cmSent, cmRan>>

rectangle == <<topLeftCorner, bottomRightCorner, rectXDistance, rectYDistance>>

grab == <<grabbedWidget, grabState, trigger>>

vrSide == <<calibrated, screenRect, screenWidth, screenHeight, aspectRatio, gameStartedVR,
            latestScreenState, resuming, startVRCalls, commits, vrLast, vrSent,
            rectangle, curvedScreenTemplate, widgets, retries, gesture, commitSent, committed,
            grab>>

vars == <<relaySide, proxySide, vrSide>>

\* ------------------------------------------------------- the client table
\* index of ws in the Map, 0 when absent
mapIndex(clients, ws) ==
    IF \E i \in 1..Len(clients) : clients[i].ws = ws
    THEN CHOOSE i \in 1..Len(clients) : clients[i].ws = ws
    ELSE 0

mapHas(clients, ws) == mapIndex(clients, ws) # 0

\* connectedClients.get(ws); only used where the entry exists
mapGet(clients, ws) == clients[mapIndex(clients, ws)]

\* connectedClients.set(ws, {type, userID}): an existing key keeps its position
mapSet(clients, ws, type, userID) ==
    LET e == [ws |-> ws, type |-> type, userID |-> userID]
    IN IF mapHas(clients, ws)
       THEN [clients EXCEPT ![mapIndex(clients, ws)] = e]
       ELSE Append(clients, e)

\* connectedClients.delete(ws)
mapDelete(clients, ws) ==
    LET i == mapIndex(clients, ws)
    IN IF i = 0 THEN clients
       ELSE SubSeq(clients, 1, i - 1) \o SubSeq(clients, i + 1, Len(clients))

\* getWallClient(): the first WALL entry, null when there is none or the flag is down
getWallClient(clients, wall) ==
    IF ~wall THEN Null
    ELSE IF \E i \in 1..Len(clients) : clients[i].type = "WALL"
         THEN LET i == CHOOSE i \in 1..Len(clients) :
                         /\ clients[i].type = "WALL"
                         /\ \A j \in 1..(i - 1) : clients[j].type # "WALL"
              IN clients[i].ws
         ELSE Null

\* --------------------------------------------------------------- messages
\* An outbound envelope. text is the string payload, role/userID the membership
\* payload, body the forwarded application payload.
NoBody == [body |-> 0, userID |-> 0]

Envelope(type, text, role, userID, body) ==
    [type |-> type, text |-> text, role |-> role, userID |-> userID, body |-> body]

TextMsg(type, text) == Envelope(type, text, "", 0, NoBody)
MemberMsg(type, role, userID) == Envelope(type, "", role, userID, NoBody)
BodyMsg(type, body) == Envelope(type, "", "", 0, body)

\* The relay state a handler works on: the table, the flag, the uuid counter, the
\* sockets' readyState, the sendMessage calls made so far (out) and whether the
\* handler has thrown.
\* sendMessage(ws, message): reads ws.readyState, so a null ws throws a TypeError;
\* ws.send runs only on an OPEN socket (open records whether it ran).
sendMessage(s, ws, message) ==
    IF s.threw THEN s
    ELSE IF ws = Null THEN [s EXCEPT !.threw = TRUE]
    ELSE [s EXCEPT !.out = Append(@, [to |-> ws, msg |-> message,
                                      open |-> (s.ready[ws] = "OPEN")])]

sendError(s, ws, text) == sendMessage(s, ws, TextMsg("ERROR", text))

\* ------------------------------------------------------------ registration
\* the test gone: a wall is never refused
wallTaken_never(s) == FALSE

\* server.js:90, the test that refuses a second wall
wallTaken(s) == s.wallRegistered

\* server.js:108-118, the catch-up loop of a new wall over the table, from entry i
RECURSIVE announceExisting(_, _)
announceExisting(s, i) ==
    IF s.threw \/ i > Len(s.clients) THEN s
    ELSE LET info == s.clients[i]
             s1 == IF info.type # "WALL"
                   THEN sendMessage(s, getWallClient(s.clients, s.wallRegistered),
                                    MemberMsg("NEW_CLIENT", info.type, info.userID))
                   ELSE s
         IN announceExisting(s1, i + 1)

\* server.js:89-120, case 'WALL'
registerWall(s, ws) ==
    IF wallTaken(s)
    THEN sendMessage(s, ws, TextMsg("REGISTRATION_ERROR", "Wall client already registered"))
    ELSE LET s1 == [s EXCEPT !.wallRegistered = TRUE,
                             !.clients = mapSet(@, ws, "WALL", s.nextID),
                             !.nextID = @ + 1]
             s2 == sendMessage(s1, ws, TextMsg("REGISTRATION_SUCCESS",
                                               "Successfully registered as WALL client"))
         IN announceExisting(s2, 1)

\* server.js:121-144, case 'VR' / case 'DESKTOP'; ws.clientType and ws.userID are
\* written and never read, the userID sent is that of the new entry
registerInput(s, ws, clientType) ==
    LET s1 == [s EXCEPT !.clients = mapSet(@, ws, clientType, s.nextID),
                        !.nextID = @ + 1]
        s2 == sendMessage(s1, ws, TextMsg("REGISTRATION_SUCCESS",
                                          IF clientType = "VR"
                                          THEN "Successfully registered as VR client"
                                          ELSE "Successfully registered as DESKTOP client"))
    IN IF s2.wallRegistered
       THEN sendMessage(s2, getWallClient(s2.clients, s2.wallRegistered),
                        MemberMsg("NEW_CLIENT", clientType, s1.clients[mapIndex(s1.clients, ws)].userID))
       ELSE s2

\* server.js:80-149
handleClientRegistration(s, ws, data) ==
    IF data.clientType = Missing THEN sendError(s, ws, "Client type is required")
    ELSE IF data.clientType = "WALL" THEN registerWall(s, ws)
    ELSE IF data.clientType \in {"VR", "DESKTOP"} THEN registerInput(s, ws, data.clientType)
    ELSE sendError(s, ws, "Unknown client type")

\* ------------------------------------------------------------------ routing
\* server.js:53-60, the WALL_CALIBRATION loop over the table, from entry i
RECURSIVE forwardCalibration(_, _, _)
forwardCalibration(s, i, payload) ==
    IF s.threw \/ i > Len(s.clients) THEN s
    ELSE LET info == s.clients[i]
             s1 == IF info.type = "VR"
                   THEN sendMessage(s, info.ws, BodyMsg("WALL_CALIBRATION", payload))
                   ELSE s
         IN forwardCalibration(s1, i + 1, payload)

\* the payload forwarded with the userID its sender wrote
stamped_asSent(message, userID) == message

\* server.js:68, { ...data.message, userID }
stamped(message, userID) == [message EXCEPT !.userID = userID]

\* the state handed back to its sender when there is no wall
forwardControllerState_echo(s, ws, data) ==
    IF ~mapHas(s.clients, ws) THEN [s EXCEPT !.threw = TRUE]
    ELSE LET userID == mapGet(s.clients, ws).userID
             wallClient == getWallClient(s.clients, s.wallRegistered)
         IN sendMessage(s, IF wallClient # Null THEN wallClient ELSE ws,
                        BodyMsg(data.type, stamped(data.message, userID)))

\* server.js:62-72, case 'VR_CONTROLLER_STATE': connectedClients.get(ws) is undefined
\* for an unregistered sender and reading its userID throws
forwardControllerState(s, ws, data) ==
    IF ~mapHas(s.clients, ws) THEN [s EXCEPT !.threw = TRUE]
    ELSE LET userID == mapGet(s.clients, ws).userID
             wallClient == getWallClient(s.clients, s.wallRegistered)
         IN IF wallClient # Null
            THEN sendMessage(s, wallClient,
                             BodyMsg(data.type, stamped(data.message, userID)))
            ELSE s

\* the default case without its reply
unmatchedType_silent(s, ws) == s

\* server.js:73-75, the default case of the switch
unmatchedType(s, ws) == sendError(s, ws, "Data type has no matches")

\* server.js:39-77
handleMessage(s, ws, data) ==
    IF data.type = Missing THEN sendError(s, ws, "No data type specified")
    ELSE IF data.type = "REGISTER_CLIENT" THEN handleClientRegistration(s, ws, data)
    ELSE IF data.type = "ERROR" THEN s
    ELSE IF data.type = "WALL_CALIBRATION" THEN forwardCalibration(s, 1, data.message)
    ELSE IF data.type = "VR_CONTROLLER_STATE" THEN forwardControllerState(s, ws, data)
    ELSE unmatchedType(s, ws)

\* server.js:216-223, the try/catch of ws.on('message'): JSON.parse throws on
\* invalid JSON, reading .type of a parsed null throws, and whatever a handler
\* throws lands in the same catch; what the handler did before throwing stays.
onMessageBody(s, ws, raw) ==
    LET r == IF raw.kind = "object" THEN handleMessage(s, ws, raw.data)
             ELSE [s EXCEPT !.threw = TRUE]
    IN IF r.threw
       THEN sendError([r EXCEPT !.threw = FALSE], ws, "Invalid JSON format")
       ELSE r

\* ------------------------------------------------------------ disconnection
\* the notice sent to every client that is not the wall
lossNoticeTarget_nonWall(info) == info.type # "WALL"

\* server.js:157, who is told that the wall left
lossNoticeTarget(info) == info.type = "VR"

\* server.js:156-163, the WALL_DISCONNECTED loop over the table, from entry i
RECURSIVE noticeLoop(_, _)
noticeLoop(s, i) ==
    IF s.threw \/ i > Len(s.clients) THEN s
    ELSE LET info == s.clients[i]
             s1 == IF lossNoticeTarget(info)
                   THEN sendMessage(s, info.ws, TextMsg("WALL_DISCONNECTED",
                                                        "Wall client disconnected"))
                   ELSE s
         IN noticeLoop(s1, i + 1)

\* the flag left as it was
wallFlagAfterLoss_kept(wall) == wall

\* server.js:165, wallRegistered = false
wallFlagAfterLoss(wall) == FALSE

\* the entry left in the table
forgetClient_kept(clients, ws) == clients

\* server.js:181, connectedClients.delete(ws)
forgetClient(clients, ws) == mapDelete(clients, ws)

\* server.js:151-183
handleDisconnection(s, ws) ==
    IF ~mapHas(s.clients, ws) THEN s
    ELSE LET clientInfo == mapGet(s.clients, ws)
             s1 == IF clientInfo.type = "WALL"
                   THEN LET b == IF s.wallRegistered THEN noticeLoop(s, 1) ELSE s
                        IN [b EXCEPT !.wallRegistered = wallFlagAfterLoss(@)]
                   ELSE IF s.wallRegistered
                        THEN sendMessage(s, getWallClient(s.clients, s.wallRegistered),
                                         MemberMsg("CLIENT_DISCONNECTED",
                                                   clientInfo.type, clientInfo.userID))
                        ELSE s
         IN IF s1.threw THEN s1
            ELSE [s1 EXCEPT !.clients = forgetClient(@, ws)]

\* ----------------------------------------------------------------- shutdown
\* server.js:241-248, the for-of loop of handleShutdown, resumed after entry pos of
\* the live Map iterator: it skips sockets that are not OPEN, calls close() on the
\* first OPEN one and awaits its 'close'; past the last entry it calls wss.close().
drainStep(clients, ready, pos) ==
    IF \E i \in (pos + 1)..Len(clients) : ready[clients[i].ws] = "OPEN"
    THEN LET i == CHOOSE i \in (pos + 1)..Len(clients) :
                     /\ ready[clients[i].ws] = "OPEN"
                     /\ \A j \in (pos + 1)..(i - 1) : ready[clients[j].ws] # "OPEN"
         IN [ready |-> [ready EXCEPT ![clients[i].ws] = "CLOSING"],
             awaiting |-> clients[i].ws, pos |-> i, proc |-> "draining"]
    ELSE [ready |-> ready, awaiting |-> Null, pos |-> Len(clients), proc |-> "closingWss"]

\* ------------------------------------------------------- inbound envelopes
\* A JavaScript number as the commit carries it, and what JSON.stringify followed
\* by JSON.parse makes of it: a finite number is kept, NaN becomes null.
Num(v) == [k |-> "number", v |-> v]
NaN == [k |-> "NaN", v |-> 0]
JsonNull == [k |-> "null", v |-> 0]

jsonNumber(x) == IF x.k = "number" THEN x ELSE JsonNull

jsonVec(v) == [i \in 1..Len(v) |-> jsonNumber(v[i])]

\* the rectangle of a CALIBRATION_COMMIT after JSON.stringify / JSON.parse
jsonRect(r) ==
    [topLeftCorner |-> jsonVec(r.topLeftCorner),
     bottomRightCorner |-> jsonVec(r.bottomRightCorner),
     rectXDistance |-> jsonNumber(r.rectXDistance),
     rectYDistance |-> jsonNumber(r.rectYDistance)]

\* the snapshots a VR client commits: [...topLeftCorner], [...bottomRightCorner],
\* rectXDistance, rectYDistance
Snapshots ==
    { [topLeftCorner |-> <<Num(0), Num(2), Num(-1)>>,
       bottomRightCorner |-> <<Num(1), Num(1), Num(-1)>>,
       rectXDistance |-> Num(1), rectYDistance |-> Num(1)],
      [topLeftCorner |-> <<Num(0), Num(2), Num(-1)>>,
       bottomRightCorner |-> <<Num(0), Num(2), Num(-1)>>,
       rectXDistance |-> Num(0), rectYDistance |-> NaN] }

Data(type, clientType, message) ==
    [type |-> type, clientType |-> clientType, message |-> message]

\* the envelope cm.sendMessage puts on the wire on commit
commitEnvelope(snapshot) == Data("CALIBRATION_COMMIT", Missing, jsonRect(snapshot))

ClientTypes == {"WALL", "VR", "DESKTOP", "SCREEN", Missing}

\* the parsed objects clients send
Envelopes ==
    { Data("REGISTER_CLIENT", ct, NoBody) : ct \in ClientTypes }
    \cup { Data(t, Missing, NoBody) : t \in {Missing, "ERROR", "GAME_EVENT", "BOGUS"} }
    \cup { Data("WALL_CALIBRATION", Missing, [body |-> 1, userID |-> 0]) }
    \cup { Data("VR_CONTROLLER_STATE", Missing, [body |-> 1, userID |-> u]) : u \in {0, 1} }
    \cup { commitEnvelope(r) : r \in Snapshots }

\* what arrives on a socket: text that is not JSON, the JSON text null, or an object
Raw(kind, data) == [kind |-> kind, data |-> data]
NoData == Data(Missing, Missing, NoBody)
RawMessages ==
    { Raw("invalid", NoData), Raw("null", NoData) }
    \cup { Raw("object", d) : d \in Envelopes }

\* the registrations that draw a fresh userID from uuidv4()
drawsID(raw) ==
    /\ raw.kind = "object"
    /\ raw.data.type = "REGISTER_CLIENT"
    /\ \/ raw.data.clientType \in {"VR", "DESKTOP"}
       \/ raw.data.clientType = "WALL" /\ ~wallRegistered

\* ------------------------------------------------------------------ history
Event(kind, ws, raw, gated) ==
    [kind |-> kind, ws |-> ws, raw |-> raw, gated |-> gated]

\* the connection whose table entry carries userID
aboutOf(clients, userID) ==
    IF \E i \in 1..Len(clients) : clients[i].userID = userID
    THEN clients[CHOOSE i \in 1..Len(clients) : clients[i].userID = userID].ws
    ELSE Null

RECURSIVE memberEntries(_, _, _, _)
memberEntries(out, w, clients, via) ==
    IF out = <<>> THEN <<>>
    ELSE LET o == Head(out)
             rest == memberEntries(Tail(out), w, clients, via)
         IN IF o.to = w /\ o.msg.type \in {"NEW_CLIENT", "CLIENT_DISCONNECTED"}
            THEN <<[type |-> o.msg.type, role |-> o.msg.role, userID |-> o.msg.userID,
                    about |-> aboutOf(clients, o.msg.userID),
                    via |-> via]>> \o rest
            ELSE rest

logged(out, clients, via) ==
    [w \in Conns |-> membershipLog[w] \o memberEntries(out, w, clients, via)]

\* the WALL_CALIBRATION envelopes among the calls out that were written to ws
written(out, ws) ==
    { k \in 1..Len(out) : /\ out[k].to = ws
                          /\ out[k].msg.type = "WALL_CALIBRATION"
                          /\ out[k].open }

reported(out) ==
    [w \in Conns |-> IF reports[w] + Cardinality(written(out, w)) >= 2 THEN 2
                     ELSE reports[w] + Cardinality(written(out, w))]

\* ------------------------------------------------------------------ actions
Start(ready) ==
    [clients |-> connectedClients, wallRegistered |-> wallRegistered,
     nextID |-> nextID, ready |-> ready, out |-> <<>>, threw |-> FALSE]

Exited == proc \in {"exit0", "exit1"}

\* -------------------------------------------------- the pages' first state
\* number of registerToServer calls a page makes in one run
MaxCalls == 2
Calls == 1..MaxCalls

CmEvent(kind, call, msg, threw) ==
    [kind |-> kind, call |-> call, msg |-> msg, threw |-> threw]

\* clientManager.js:1-4, the module as loaded
cmInit ==
    /\ connectionState = "disconnected"
    /\ cmClientType = "null"
    /\ cmWs = Null
    /\ socketState = [k \in Calls |-> "NONE"]
    /\ listening = [k \in Calls |-> FALSE]
    /\ promise = [k \in Calls |-> "none"]
    /\ timer = [k \in Calls |-> "none"]
    /\ opened = [k \in Calls |-> FALSE]
    /\ cmLast = CmEvent("init", Null, "", FALSE)
    /\ cmSent = <<>>
    /\ cmRan = <<>>

\* a property that an object does not have
Undefined == [k |-> "undefined", v |-> 0]

\* part_007:271-272, { onScreen: false }
OffScreen ==
    [onScreen |-> FALSE, canvasX |-> Undefined, canvasY |-> Undefined,
     u |-> Undefined, v |-> Undefined]

\* What the 3D layer resolves for one controller in one frame: the controller is
\* absent, its ray misses the screen mesh, it hits a face without UV data, or it
\* hits at (u, v).
Ray(kind, u, v) == [kind |-> kind, u |-> u, v |-> v]
Absent == Ray("absent", Undefined, Undefined)
Miss == Ray("miss", Undefined, Undefined)
NoUV == Ray("nouv", Undefined, Undefined)

VrEvent(kind, hits, updateVR, startVR, threw) ==
    [kind |-> kind, hits |-> hits, updateVR |-> updateVR, startVR |-> startVR,
     threw |-> threw]

NoHits == [right |-> Absent, left |-> Absent]

\* A height n / 10 + halves * (height / width) / 2 in metres, and a point with x and
\* z in tenths of a metre.
Level(n, halves, width, height) ==
    [tenths |-> n, halves |-> halves, width |-> width, height |-> height]
Corner(x, y, z) == [x |-> x, y |-> y, z |-> z]

\* part_007:34-35 and 770-771, [-0.5, 1.6, -2.0] and [1.0, 0.8, -2.0]
DefaultTopLeft == Corner(-5, Level(16, 0, 0, 0), -20)
DefaultBottomRight == Corner(10, Level(8, 0, 0, 0), -20)

\* a distance of num / den tenths of a metre, and null
Ratio(num, den) == [k |-> "number", num |-> num, den |-> den]
NoRatio == [k |-> "null", num |-> 0, den |-> 1]

\* the rectangle a CALIBRATION_COMMIT carries
Rect(tl, br, dx, dy) ==
    [topLeftCorner |-> tl, bottomRightCorner |-> br, rectXDistance |-> dx,
     rectYDistance |-> dy]
NoRect == Rect(DefaultTopLeft, DefaultBottomRight, JsonNull, NoRatio)

\* part_007:393-401, the corners grabState keeps, and part_007:62, null
GrabState(tl, br) == [k |-> "object", startTopLeft |-> tl, startBottomRight |-> br]
NoGrab == [k |-> "null", startTopLeft |-> DefaultTopLeft,
           startBottomRight |-> DefaultBottomRight]

\* part_007:31-45, the module as loaded
vrInit ==
    /\ topLeftCorner = DefaultTopLeft
    /\ bottomRightCorner = DefaultBottomRight
    /\ rectXDistance = JsonNull
    /\ rectYDistance = NoRatio
    /\ curvedScreenTemplate = FALSE
    /\ widgets = FALSE
    /\ retries = {}
    /\ gesture = "none"
    /\ commitSent = <<>>
    /\ committed = NoRect
    /\ grabbedWidget = FALSE
    /\ grabState = NoGrab
    /\ trigger = FALSE
    /\ calibrated = FALSE
    /\ screenRect = FALSE
    /\ screenWidth = 0
    /\ screenHeight = 0
    /\ aspectRatio = FALSE
    /\ gameStartedVR = FALSE
    /\ latestScreenState = [right |-> OffScreen, left |-> OffScreen]
    /\ resuming = FALSE
    /\ startVRCalls = 0
    /\ commits = 0
    /\ vrLast = VrEvent("init", NoHits, FALSE, FALSE, FALSE)
    /\ vrSent = <<>>

Init ==
    /\ cmInit
    /\ vrInit
    /\ reports = [c \in Conns |-> 0]
    /\ connectedClients = <<>>
    /\ wallRegistered = FALSE
    /\ isShuttingDown = FALSE
    /\ readyState = [c \in Conns |-> "NONE"]
    /\ nextID = 1
    /\ proc = "running"
    /\ drainPos = 0
    /\ awaiting = Null
    /\ last = Event("init", Null, Raw("invalid", NoData), FALSE)
    /\ sent = <<>>
    /\ membershipLog = [c \in Conns |-> <<>>]
    /\ displayLost = "none"

\* server.js:210-211, wss.on('connection'): the server hands over an OPEN socket;
\* connections are numbered in the order they are accepted
Connect(c) ==
    /\ proc \in {"running", "draining"}
    /\ readyState[c] = "NONE"
    /\ \A d \in Conns : d < c => readyState[d] # "NONE"
    /\ readyState' = [readyState EXCEPT ![c] = "OPEN"]
    /\ last' = Event("connection", c, Raw("invalid", NoData), FALSE)
    /\ sent' = <<>>
    /\ UNCHANGED <<connectedClients, wallRegistered, isShuttingDown, nextID, proc,
                   drainPos, awaiting, membershipLog, displayLost>>
    /\ UNCHANGED <<reports, proxySide, vrSide>>

\* server.js:213-224, ws.on('message'), on the relay's own state
onMessage(c, raw) ==
    /\ ~Exited
    /\ readyState[c] = "OPEN" \/ (readyState[c] = "CLOSING" /\ awaiting = c)
    /\ IF isShuttingDown
       THEN /\ last' = Event("message", c, raw, TRUE)
            /\ sent' = <<>>
            /\ UNCHANGED <<connectedClients, wallRegistered, nextID, membershipLog,
                           displayLost>>
       ELSE LET s == onMessageBody(Start(readyState), c, raw)
                isWallReg == /\ raw.kind = "object"
                             /\ raw.data.type = "REGISTER_CLIENT"
                             /\ raw.data.clientType = "WALL"
            IN /\ connectedClients' = s.clients
               /\ wallRegistered' = s.wallRegistered
               /\ nextID' = s.nextID
               /\ sent' = s.out
               /\ last' = Event("message", c, raw, FALSE)
               /\ membershipLog' = logged(s.out, s.clients,
                                          IF isWallReg THEN "catchup" ELSE "join")
               /\ displayLost' = IF displayLost # "lost" THEN "none"
                                  ELSE IF isWallReg THEN "retaken" ELSE "lost"
    /\ UNCHANGED <<isShuttingDown, readyState, proc, drainPos, awaiting>>
    /\ UNCHANGED <<proxySide, vrSide>>

\* a message from a client that is not the wall page of DisplayReport
OnMessage(c, raw) ==
    /\ onMessage(c, raw)
    /\ UNCHANGED reports

\* the peer's close frame arrives: the socket is CLOSING until its 'close' event
PeerClosing(c) ==
    /\ ~Exited
    /\ readyState[c] = "OPEN"
    /\ readyState' = [readyState EXCEPT ![c] = "CLOSING"]
    /\ last' = Event("closing", c, Raw("invalid", NoData), FALSE)
    /\ sent' = <<>>
    /\ UNCHANGED <<connectedClients, wallRegistered, isShuttingDown, nextID, proc,
                   drainPos, awaiting, membershipLog, displayLost>>
    /\ UNCHANGED <<reports, proxySide, vrSide>>

\* server.js:226-228, ws.on('close'), with what follows in the same turn of the
\* event loop: an exception of handleDisconnection is uncaught and starts
\* handleShutdown('uncaughtException') (server.js:272-275), and it keeps the
\* 'close' listener of handleShutdown (server.js:244) from running; otherwise that
\* listener resumes the drain loop.
OnClose(c) ==
    /\ ~Exited
    /\ readyState[c] \in {"OPEN", "CLOSING"}
    /\ LET ready == [readyState EXCEPT ![c] = "CLOSED"]
           s == handleDisconnection(Start(ready), c)
           removed == mapHas(connectedClients, c) /\ ~s.threw
           pos == IF removed /\ mapIndex(connectedClients, c) <= drainPos
                  THEN drainPos - 1 ELSE drainPos
           d == IF s.threw /\ ~isShuttingDown THEN drainStep(s.clients, s.ready, 0)
                ELSE IF ~s.threw /\ awaiting = c THEN drainStep(s.clients, s.ready, pos)
                ELSE [ready |-> s.ready, awaiting |-> awaiting, pos |-> pos, proc |-> proc]
       IN /\ connectedClients' = s.clients
          /\ wallRegistered' = s.wallRegistered
          /\ sent' = s.out
          /\ membershipLog' = logged(s.out, connectedClients, "leave")
          /\ displayLost' = IF removed /\ mapGet(connectedClients, c).type = "WALL"
                             THEN "lost" ELSE displayLost
          /\ isShuttingDown' = (isShuttingDown \/ s.threw)
          /\ readyState' = d.ready
          /\ awaiting' = d.awaiting
          /\ drainPos' = d.pos
          /\ proc' = d.proc
          /\ last' = [Event("close", c, Raw("invalid", NoData), FALSE) EXCEPT !.gated = s.threw]
    /\ UNCHANGED <<nextID, reports, proxySide, vrSide>>

\* server.js:232-248 and 268-270, handleShutdown on SIGINT, SIGTERM or SIGQUIT, up to
\* its first await
Shutdown ==
    /\ proc = "running"
    /\ ~isShuttingDown
    /\ LET d == drainStep(connectedClients, readyState, 0)
       IN /\ isShuttingDown' = TRUE
          /\ readyState' = d.ready
          /\ awaiting' = d.awaiting
          /\ drainPos' = d.pos
          /\ proc' = d.proc
    /\ last' = Event("shutdown", Null, Raw("invalid", NoData), FALSE)
    /\ sent' = <<>>
    /\ UNCHANGED <<connectedClients, wallRegistered, nextID, membershipLog, displayLost>>
    /\ UNCHANGED <<reports, proxySide, vrSide>>

\* server.js:250-252, the callback of wss.close()
WssClosed ==
    /\ proc = "closingWss"
    /\ proc' = "closingHttp"
    /\ last' = Event("wssClosed", Null, Raw("invalid", NoData), FALSE)
    /\ sent' = <<>>
    /\ UNCHANGED <<connectedClients, wallRegistered, isShuttingDown, readyState, nextID,
                   drainPos, awaiting, membershipLog, displayLost>>
    /\ UNCHANGED <<reports, proxySide, vrSide>>

\* server.js:252-256, the callback of server.close(), then process.exit(0)
HttpClosed ==
    /\ proc = "closingHttp"
    /\ proc' = "exit0"
    /\ last' = Event("httpClosed", Null, Raw("invalid", NoData), FALSE)
    /\ sent' = <<>>
    /\ UNCHANGED <<connectedClients, wallRegistered, isShuttingDown, readyState, nextID,
                   drainPos, awaiting, membershipLog, displayLost>>
    /\ UNCHANGED <<reports, proxySide, vrSide>>

\* server.js:238, the forceExit timer: process.exit(1)
ForceExit ==
    /\ proc \in {"draining", "closingWss", "closingHttp"}
    /\ proc' = "exit1"
    /\ last' = Event("forceExit", Null, Raw("invalid", NoData), FALSE)
    /\ sent' = <<>>
    /\ UNCHANGED <<connectedClients, wallRegistered, isShuttingDown, readyState, nextID,
                   drainPos, awaiting, membershipLog, displayLost>>
    /\ UNCHANGED <<reports, proxySide, vrSide>>

\* the REGISTER_CLIENT envelopes
Registrations ==
    { r \in RawMessages : r.kind = "object" /\ r.data.type = "REGISTER_CLIENT" }

\* the relay under registrations and disconnects; no termination signal arrives, so
\* handleShutdown runs only after an uncaught exception
Next ==
    \/ \E c \in Conns : Connect(c)
    \/ \E c \in Conns, raw \in Registrations :
          (drawsID(raw) => nextID <= MaxRegs) /\ OnMessage(c, raw)
    \/ \E c \in Conns : PeerClosing(c)
    \/ \E c \in Conns : OnClose(c)
    \/ WssClosed
    \/ HttpClosed
    \/ ForceExit

Spec == Init /\ [][Next]_vars

\* the relay under every kind of inbound envelope and the termination signals, with
\* fewer connections, each socket OPEN until its 'close' event
NextRoute ==
    \/ \E c \in 1..RouteConns : Connect(c)
    \/ \E c \in 1..RouteConns, raw \in RawMessages :
          (drawsID(raw) => nextID <= RouteRegs) /\ OnMessage(c, raw)
    \/ \E c \in 1..RouteConns : OnClose(c)
    \/ Shutdown
    \/ WssClosed
    \/ HttpClosed
    \/ ForceExit

SpecRoute == Init /\ [][NextRoute]_vars

\* a signal that arrives during a shutdown starts the shutdown again
shutdownInProgress_never(flag) == FALSE

\* server.js:233
shutdownInProgress(flag) == flag

\* server.js:232-248 and 268-270, handleShutdown on every SIGINT, SIGTERM or SIGQUIT
\* the process gets, up to its first await
Signal ==
    /\ ~Exited
    /\ IF shutdownInProgress(isShuttingDown)
       THEN UNCHANGED <<isShuttingDown, readyState, awaiting, drainPos, proc>>
       ELSE LET d == drainStep(connectedClients, readyState, 0)
            IN /\ isShuttingDown' = TRUE
               /\ readyState' = d.ready
               /\ awaiting' = d.awaiting
               /\ drainPos' = d.pos
               /\ proc' = d.proc
    /\ last' = Event("shutdown", Null, Raw("invalid", NoData), isShuttingDown)
    /\ sent' = <<>>
    /\ UNCHANGED <<connectedClients, wallRegistered, nextID, membershipLog, displayLost>>
    /\ UNCHANGED <<reports, proxySide, vrSide>>

\* the relay under registrations, disconnects and any number of termination signals
NextShutdown ==
    \/ \E c \in 1..RouteConns : Connect(c)
    \/ \E c \in 1..RouteConns, raw \in Registrations :
          (drawsID(raw) => nextID <= RouteRegs) /\ OnMessage(c, raw)
    \/ \E c \in 1..RouteConns : OnClose(c)
    \/ Signal
    \/ WssClosed
    \/ HttpClosed
    \/ ForceExit

SpecShutdown == Init /\ [][NextShutdown]_vars

\* the forceExit timer of server.js:238 fires 3000 ms after handleShutdown armed it
\* unless the process has exited
SpecShutdownLive == SpecShutdown /\ WF_vars(ForceExit)

\* the dimension report of the wall page
wallReport == Data("WALL_CALIBRATION", Missing, [body |-> 1, userID |-> 0])

\* wall.js:94-103 and 151-163: the wall page sends its dimension report when its
\* registration has succeeded and whenever it is told of a new VR client; here the
\* report is the next envelope the relay handles after it wrote that notice to c
DisplayReport(c) ==
    /\ \E k \in 1..Len(sent) :
          /\ sent[k].to = c
          /\ sent[k].open
          /\ \/ /\ sent[k].msg.type = "REGISTRATION_SUCCESS"
                /\ sent[k].msg.text = "Successfully registered as WALL client"
             \/ /\ sent[k].msg.type = "NEW_CLIENT"
                /\ sent[k].msg.role = "VR"
    /\ onMessage(c, Raw("object", wallReport))
    /\ reports' = reported(sent')

\* the relay under registrations and disconnects, with a wall page that reports its
\* dimensions
NextReport ==
    \/ \E c \in Conns : Connect(c)
    \/ \E c \in Conns, raw \in Registrations :
          (drawsID(raw) => nextID <= MaxRegs) /\ OnMessage(c, raw)
    \/ \E c \in Conns : DisplayReport(c)
    \/ \E c \in Conns : OnClose(c)
    \/ WssClosed
    \/ HttpClosed
    \/ ForceExit

SpecReport == Init /\ [][NextReport]_vars

\* ========================================================= session proxy
\* The proxy state a callback works on: the module variables, the sockets, promises
\* and timers of the calls, what was passed to WebSocket.send (out) and whether the
\* call threw.
CmStart ==
    [state |-> connectionState, type |-> cmClientType, ws |-> cmWs, sock |-> socketState,
     listening |-> listening, promise |-> promise, timer |-> timer, opened |-> opened,
     out |-> <<>>, ran |-> <<>>, threw |-> FALSE]

\* part_007:786-788 and gameAPI.js:45, the types the VR page has passed to
\* cm.handleEvent
eventActions == {"CLOSE", "SCREEN_CALIBRATION", "SCREEN_DISCONNECTED", "GAME_EVENT"}

\* clientManager.js:64-65, 73-74 and 100-101: eventActions.get(type) is called when
\* it is a function; state and clientType are what clientManager.js:158-160 returns
\* to the handler
invoke(p, type) ==
    IF type \in eventActions
    THEN [p EXCEPT !.ran = Append(@, [type |-> type, state |-> p.state,
                                      clientType |-> p.type])]
    ELSE p

\* WebSocket.send on the socket the module variable ws holds
wsSend(p, type) == [p EXCEPT !.out = Append(@, [on |-> p.ws, type |-> type])]

\* WebSocket.close(): starts the closing handshake of a socket that is CONNECTING or
\* OPEN and does nothing to one that is CLOSING or CLOSED
wsClose(sock, k) ==
    IF sock[k] \in {"CONNECTING", "OPEN"} THEN [sock EXCEPT ![k] = "CLOSING"] ELSE sock

\* resolve / reject of the promise of call k: a settled promise stays as it is
settle(p, k, outcome) ==
    IF p.promise[k] = "pending" THEN [p EXCEPT !.promise[k] = outcome] ELSE p

\* clearTimeout(timeout) of call k
clearTimer(p, k) ==
    IF p.timer[k] = "armed" THEN [p EXCEPT !.timer[k] = "cleared"] ELSE p

\* the registration state left out of the test
isRegistered_openOnly(p) ==
    /\ p.ws # Null
    /\ p.sock[p.ws] = "OPEN"

\* clientManager.js:162-164
isRegistered(p) ==
    /\ p.ws # Null
    /\ p.sock[p.ws] = "OPEN"
    /\ p.state = "registered"

\* clientManager.js:128-131
cmSendMessage(p, type) ==
    IF ~isRegistered(p) THEN [p EXCEPT !.threw = TRUE]
    ELSE wsSend(p, type)

\* clientManager.js:137-141
cmSendError(p) ==
    IF p.ws # Null /\ p.sock[p.ws] = "OPEN" THEN wsSend(p, "ERROR") ELSE p

\* clientManager.js:143-149
clearSocket(p) ==
    IF p.ws = Null THEN p
    ELSE [p EXCEPT !.listening[p.ws] = FALSE,
                   !.sock = wsClose(@, p.ws),
                   !.ws = Null]

\* clientManager.js:151-156
disconnect(p) ==
    [clearSocket(p) EXCEPT !.state = "disconnected", !.type = "null"]

\* clientManager.js:25-35 and 36, 45-78: the executor of the promise of call k
registerToServer(p, k, type) ==
    IF p.state = "connecting" THEN [p EXCEPT !.promise[k] = "rejected"]
    ELSE LET q == clearSocket([p EXCEPT !.type = type])
         IN [q EXCEPT !.state = "connecting",
                      !.ws = k,
                      !.sock[k] = "CONNECTING",
                      !.listening[k] = TRUE,
                      !.timer[k] = "armed",
                      !.promise[k] = "pending"]

\* clientManager.js:36-40, the callback of the registration timeout of call k; the
\* socket it closes is the one the module variable ws holds when it fires
onTimeout(p, k) ==
    LET q == settle([p EXCEPT !.timer[k] = "fired", !.state = "disconnected"], k, "rejected")
    IN IF q.ws # Null THEN [q EXCEPT !.sock = wsClose(@, q.ws)] ELSE q

\* clientManager.js:45-50, ws.onopen of call k
onOpen(p, k) ==
    wsSend([p EXCEPT !.opened[k] = TRUE, !.state = "connected"], "REGISTER_CLIENT")

\* a REGISTRATION_ERROR that leaves the promise alone
registrationFailed_kept(p, k) ==
    [clearTimer(p, k) EXCEPT !.state = "connected"]

\* clientManager.js:92-96, case 'REGISTRATION_ERROR'
registrationFailed(p, k) ==
    settle([clearTimer(p, k) EXCEPT !.state = "connected"], k, "rejected")

\* clientManager.js:87-91, case 'REGISTRATION_SUCCESS'
registrationSucceeded(p, k) ==
    settle([clearTimer(p, k) EXCEPT !.state = "registered"], k, "resolved")

\* an ERROR of the server answered with an ERROR
errorReceived_answered(p) == cmSendError(p)

\* clientManager.js:111-113, case 'ERROR'
errorReceived(p) == p

\* clientManager.js:52-60 and 81-126, ws.onmessage of call k: msg is the type of the
\* parsed message, Missing when it has none, "<invalid>" when the text is not JSON
onSocketMessage(p, k, msg) ==
    IF msg = "<invalid>" THEN cmSendError(p)
    ELSE IF msg = Missing THEN cmSendError(p)
    ELSE IF msg = "REGISTRATION_SUCCESS" THEN registrationSucceeded(p, k)
    ELSE IF msg = "REGISTRATION_ERROR" THEN registrationFailed(p, k)
    ELSE IF msg \in {"NEW_CLIENT", "CLIENT_DISCONNECTED", "CALIBRATION_COMMIT"}
         THEN IF p.type = "SCREEN" THEN invoke(p, msg) ELSE p
    ELSE IF msg \in {"SCREEN_CALIBRATION", "SCREEN_DISCONNECTED"}
         THEN IF p.type = "VR" THEN invoke(p, msg) ELSE p
    ELSE IF msg = "ERROR" THEN errorReceived(p)
    ELSE IF msg = "GAME_EVENT" THEN invoke(p, msg)
    ELSE cmSendError(p)

\* clientManager.js:62-68 and 70-77, ws.onclose and ws.onerror of call k, which differ
\* in what they log
onSocketLost(p, k) ==
    LET q == invoke(clearTimer(p, k), "CLOSE")
        r == IF q.opened[k] /\ q.state = "connecting" THEN settle(q, k, "rejected") ELSE q
    IN disconnect(r)

\* the types of the messages the server sends to a page
ServerMessages ==
    {"REGISTRATION_SUCCESS", "REGISTRATION_ERROR", "GAME_EVENT", "BOGUS", Missing, "<invalid>",
     "ERROR", "NEW_CLIENT", "SCREEN_CALIBRATION", "WALL_DISCONNECTED"}

\* the roles a page registers with
PageTypes == {"VR"}

CmDone(p, event) ==
    /\ connectionState' = p.state
    /\ cmClientType' = p.type
    /\ cmWs' = p.ws
    /\ socketState' = p.sock
    /\ listening' = p.listening
    /\ promise' = p.promise
    /\ timer' = p.timer
    /\ opened' = p.opened
    /\ cmSent' = p.out
    /\ cmRan' = p.ran
    /\ cmLast' = event
    /\ UNCHANGED <<relaySide, vrSide>>

\* the page calls registerToServer(type); calls are numbered in the order made
RegisterToServer(k, type) ==
    /\ promise[k] = "none"
    /\ \A j \in Calls : j < k => promise[j] # "none"
    /\ CmDone(registerToServer(CmStart, k, type), CmEvent("register", k, type, FALSE))

\* the registration timeout of call k fires
Timeout(k) ==
    /\ timer[k] = "armed"
    /\ CmDone(onTimeout(CmStart, k), CmEvent("timeout", k, "", FALSE))

\* the socket of call k opens
SocketOpen(k) ==
    /\ socketState[k] = "CONNECTING"
    /\ LET p == [CmStart EXCEPT !.sock[k] = "OPEN"]
       IN CmDone(IF listening[k] THEN onOpen(p, k) ELSE p, CmEvent("open", k, "", FALSE))

\* a message of the server arrives on the socket of call k
SocketMessage(k, msg) ==
    /\ socketState[k] = "OPEN"
    /\ listening[k]
    /\ CmDone(onSocketMessage(CmStart, k, msg), CmEvent("message", k, msg, FALSE))

\* the server starts the closing handshake on the socket of call k
SocketClosing(k) ==
    /\ socketState[k] = "OPEN"
    /\ CmDone([CmStart EXCEPT !.sock[k] = "CLOSING"], CmEvent("closing", k, "", FALSE))

\* the socket of call k is closed after it had opened: its 'close' event
SocketClose(k) ==
    /\ socketState[k] \in {"OPEN", "CLOSING"}
    /\ LET p == [CmStart EXCEPT !.sock[k] = "CLOSED"]
       IN CmDone(IF listening[k] THEN onSocketLost(p, k) ELSE p,
                 CmEvent("close", k, "", FALSE))

\* the connection of call k fails: its 'error' event, on a socket already CLOSED (the
\* 'close' event that follows finds no handler, onerror has removed it)
SocketError(k) ==
    /\ socketState[k] \in {"CONNECTING", "OPEN", "CLOSING"}
    /\ listening[k]
    /\ CmDone(onSocketLost([CmStart EXCEPT !.sock[k] = "CLOSED"], k),
              CmEvent("error", k, "", FALSE))

\* the page calls sendMessage (or sendGameMessage, clientManager.js:166-169)
SendMessage ==
    /\ CmDone([cmSendMessage(CmStart, "APP") EXCEPT !.threw = FALSE],
              CmEvent("send", cmWs, "APP", cmSendMessage(CmStart, "APP").threw))

\* the page calls disconnect()
Disconnect ==
    /\ cmWs # Null
    /\ CmDone(disconnect(CmStart), CmEvent("disconnect", cmWs, "", FALSE))

NextProxy ==
    \/ \E k \in Calls, type \in PageTypes : RegisterToServer(k, type)
    \/ \E k \in Calls : Timeout(k)
    \/ \E k \in Calls : SocketOpen(k)
    \/ \E k \in Calls, msg \in ServerMessages : SocketMessage(k, msg)
    \/ \E k \in Calls : SocketClosing(k)
    \/ \E k \in Calls : SocketClose(k)
    \/ \E k \in Calls : SocketError(k)
    \/ SendMessage
    \/ Disconnect

SpecProxy == Init /\ [][NextProxy]_vars

\* =============================================================== VR page
\* u and v of a hit are multiples of 1 / UDen
UDen == 4

\* the number n / UDen
Frac(n) == Num(n)

\* isNaN(x)
isNaN(x) == x.k # "number"

\* x * n for x = a / UDen and an integer n, as a number of 1 / UDen
jsTimes(x, n) == IF x.k = "number" THEN Num(x.v * n) ELSE NaN

\* 1 - x for x = a / UDen
oneMinus(x) == IF x.k = "number" THEN Num(UDen - x.v) ELSE NaN

\* Math.floor in place of Math.round
mathRound_floor(x) == x.v \div UDen

\* Math.round(x) for x = a / UDen: the nearest integer, a half rounds up
mathRound(x) == (2 * x.v + UDen) \div (2 * UDen)

\* the coordinates published without the isNaN test
publishable_always(canvasX, canvasY) == TRUE

\* part_007:293, part_008:756
publishable(canvasX, canvasY) == ~isNaN(canvasX) /\ ~isNaN(canvasY)

\* part_007:275-300, the entry of latestScreenState for one controller
hitState(h, W, H) ==
    IF h.kind # "hit" THEN OffScreen
    ELSE LET canvasX == jsTimes(h.u, W)
             canvasY == jsTimes(oneMinus(h.v), H)
         IN IF publishable(canvasX, canvasY)
            THEN [onScreen |-> TRUE, canvasX |-> Num(mathRound(canvasX)),
                  canvasY |-> Num(mathRound(canvasY)), u |-> h.u, v |-> h.v]
            ELSE OffScreen

\* part_007:273
trackable == calibrated /\ screenRect /\ screenWidth # 0 /\ screenHeight # 0

\* the game started on every commit
startsGame_always(started) == TRUE

\* part_007:367
startsGame(started) == ~started

\* a counter of the history that stops at 2
more(n) == IF n >= 2 THEN 2 ELSE n + 1

\* the coordinates a hit can have
Coordinates == { Frac(n) : n \in 0..UDen } \cup { NaN }

Rays == { Absent, Miss, NoUV } \cup { Ray("hit", u, v) : u \in Coordinates, v \in Coordinates }

\* the rays of a frame in which neither controller points at the screen
IdleHits == { [right |-> Miss, left |-> Miss] }

\* one controller's ray is any of Rays while the other misses the screen
FrameHits ==
    { [right |-> h, left |-> Miss] : h \in Rays } \cup { [right |-> Miss, left |-> h] : h \in Rays }

\* the trigger of the right controller in a frame: not pressed, or pressed on the
\* confirm ball with the proxy registered or not
Presses == { "none", "confirm", "confirmUnregistered" }

\* the dimension reports of a screen page
Reports == { [screenWidth |-> 1920, screenHeight |-> 1080],
             [screenWidth |-> 1366, screenHeight |-> 768] }

\* clientManager.js:128-131, cm.sendMessage returns when the proxy is registered
handedOver(press) == press = "confirm"

\* the frames in which the trigger of the right controller is pressed on the x-axis
\* arrow, or is held with the controller a tenth of a metre left or right of where
\* the grab began
Edits == { "grab", "dragLeft", "dragRight" }

\* how far from its seeded place the model lets the rectangle be dragged, in tenths
MaxDrag == 1

\* part_007:421-431, a corner translated along the x axis
moved(corner, press) ==
    [corner EXCEPT !.x = IF press = "dragLeft" THEN @ - 1
                         ELSE IF press = "dragRight" THEN @ + 1 ELSE @]

\* part_007:519-521 and 581-585, Math.sqrt(dx * dx + dz * dz) of two corners at the
\* same depth
span(tl, br) == IF br.x >= tl.x THEN br.x - tl.x ELSE tl.x - br.x

\* part_007:522 and 586, a distance divided by aspectRatio
over(distance, W, H) == Ratio(distance * H, W)

\* part_007:750-754, the corners handleCalibration seeds around (0, -0.3, -0.6)
SeedTopLeft(W, H) == Corner(-5, Level(-3, 1, W, H), -6)
SeedBottomRight(W, H) == Corner(5, Level(-3, -1, W, H), -6)

\* part_007:260-577, onFrame up to its await (part_007:369) or its end. press is
\* what the right controller does in the frame: its trigger goes down on the confirm
\* ball ("confirm", and "confirmUnregistered" when the proxy is not registered, so
\* that cm.sendMessage throws and the frame ends there), goes down on the x-axis
\* arrow ("grab"), is held ("dragLeft", "dragRight") or is up ("none"); it goes
\* down (getButtonDown) only when it was up in the frame before. Of the widgets the
\* frame handles the confirm ball and the x-axis arrow.
Frame(hits, press) ==
    LET editing == ~calibrated /\ aspectRatio /\ hits.right.kind # "absent"
        down == press \in {"confirm", "confirmUnregistered", "grab"}
        held == down \/ press \in {"dragLeft", "dragRight"}
        onBall == widgets /\ press \in {"confirm", "confirmUnregistered"}
        activate == editing /\ onBall /\ ~grabbedWidget
        commit == activate /\ handedOver(press)
        start == commit /\ startsGame(gameStartedVR)
        restart == calibrated /\ hits.right.kind # "absent" /\ onBall
        live == editing /\ ~activate
        begin == live /\ widgets /\ press = "grab" /\ ~grabbedWidget
        grabbed == grabbedWidget \/ begin
        state == IF begin THEN GrabState(topLeftCorner, bottomRightCorner) ELSE grabState
        drag == live /\ grabbed /\ held
        release == live /\ grabbed /\ ~held
        tl == IF drag THEN moved(state.startTopLeft, press) ELSE topLeftCorner
        br == IF drag THEN moved(state.startBottomRight, press) ELSE bottomRightCorner
        measured == live \/ (commit /\ ~start /\ ~screenRect)
    IN /\ down => ~trigger
       /\ press \in {"dragLeft", "dragRight"} => trigger
       /\ trigger' = held
       /\ drag => (tl.x + 5 <= MaxDrag /\ -(tl.x + 5) <= MaxDrag)
       /\ latestScreenState' =
             [right |-> IF trackable THEN hitState(hits.right, screenWidth, screenHeight)
                        ELSE OffScreen,
              left |-> IF trackable THEN hitState(hits.left, screenWidth, screenHeight)
                       ELSE OffScreen]
       /\ calibrated' = IF commit THEN TRUE ELSE IF restart THEN FALSE ELSE calibrated
       /\ commits' = IF commit THEN more(commits) ELSE commits
       /\ commitSent' = IF commit
                        THEN << Rect(topLeftCorner, bottomRightCorner, rectXDistance,
                                     rectYDistance) >>
                        ELSE <<>>
       /\ committed' = IF commit
                      THEN Rect(topLeftCorner, bottomRightCorner, rectXDistance,
                                rectYDistance)
                      ELSE committed
       /\ gameStartedVR' = (gameStartedVR \/ start)
       /\ startVRCalls' = IF start THEN more(startVRCalls) ELSE startVRCalls
       /\ resuming' = (resuming \/ start)
       /\ grabbedWidget' = IF release THEN FALSE ELSE IF live THEN grabbed
                           ELSE grabbedWidget
       /\ grabState' = IF release THEN NoGrab ELSE IF live THEN state ELSE grabState
       /\ widgets' = (widgets \/ release)
       /\ topLeftCorner' = tl
       /\ bottomRightCorner' = br
       /\ rectXDistance' = IF measured THEN Num(span(tl, br)) ELSE rectXDistance
       /\ rectYDistance' = IF measured THEN over(span(tl, br), screenWidth, screenHeight)
                           ELSE rectYDistance
       /\ screenRect' = IF commit THEN (IF start THEN screenRect ELSE TRUE)
                        ELSE IF live THEN TRUE
                        ELSE IF restart THEN FALSE
                        ELSE screenRect
       /\ gesture' = IF editing /\ onBall THEN "confirm" ELSE IF drag THEN "drag"
                     ELSE IF release THEN "release"
                     ELSE IF restart THEN "recalibrate" ELSE "none"
       /\ vrLast' = VrEvent("frame", hits, gameStartedVR, start,
                            activate /\ press = "confirmUnregistered")
       /\ vrSent' = <<>>
       /\ UNCHANGED <<screenWidth, screenHeight, aspectRatio, curvedScreenTemplate,
                      retries>>
       /\ UNCHANGED <<relaySide, proxySide>>

\* part_007:371-386, the rest of onFrame after its await of gameAPI.startVR
CommitResume ==
    /\ resuming
    /\ resuming' = FALSE
    /\ screenRect' = (screenRect \/ aspectRatio)
    /\ IF ~screenRect /\ aspectRatio
       THEN /\ rectXDistance' = Num(span(topLeftCorner, bottomRightCorner))
            /\ rectYDistance' = over(span(topLeftCorner, bottomRightCorner),
                                     screenWidth, screenHeight)
       ELSE UNCHANGED <<rectXDistance, rectYDistance>>
    /\ vrLast' = VrEvent("resume", NoHits, FALSE, FALSE, FALSE)
    /\ vrSent' = <<>>
    /\ gesture' = "none"
    /\ commitSent' = <<>>
    /\ UNCHANGED <<calibrated, screenWidth, screenHeight, aspectRatio, gameStartedVR,
                   latestScreenState, startVRCalls, commits>>
    /\ UNCHANGED <<topLeftCorner, bottomRightCorner, curvedScreenTemplate, widgets,
                   retries, committed, grab>>
    /\ UNCHANGED <<relaySide, proxySide>>

\* a report taken over although the rectangle is committed
ignoresReport_never(flag) == FALSE

\* part_007:741, if (calibrated) return
ignoresReport(flag) == flag

\* part_007:740-759, handleCalibration(message) with the scene set up; pending are
\* the retry timers that stay armed
handleCalibration(message, pending) ==
    IF ignoresReport(calibrated)
    THEN /\ retries' = pending
         /\ UNCHANGED <<screenWidth, screenHeight, aspectRatio, screenRect, rectangle,
                        widgets>>
    ELSE LET dims == message
         IN /\ screenWidth' = dims.screenWidth
            /\ screenHeight' = dims.screenHeight
            /\ aspectRatio' = TRUE
            /\ IF screenRect
               THEN /\ retries' = pending
                    /\ UNCHANGED <<screenRect, rectangle, widgets>>
               ELSE IF ~curvedScreenTemplate
               THEN /\ retries' = pending \cup {message}
                    /\ UNCHANGED <<screenRect, rectangle, widgets>>
               ELSE /\ retries' = pending
                    /\ topLeftCorner' = SeedTopLeft(dims.screenWidth, dims.screenHeight)
                    /\ bottomRightCorner' =
                          SeedBottomRight(dims.screenWidth, dims.screenHeight)
                    /\ rectXDistance' = Num(10)
                    /\ rectYDistance' = over(10, dims.screenWidth, dims.screenHeight)
                    /\ screenRect' = TRUE
                    /\ widgets' = TRUE

\* part_007:787, the handler of SCREEN_CALIBRATION
HandleCalibration(report) ==
    /\ handleCalibration(report, retries)
    /\ vrLast' = VrEvent("calibration", NoHits, FALSE, FALSE, FALSE)
    /\ vrSent' = <<>>
    /\ gesture' = "none"
    /\ commitSent' = <<>>
    /\ UNCHANGED <<calibrated, gameStartedVR, latestScreenState, resuming, startVRCalls,
                   commits, curvedScreenTemplate, committed, grab>>
    /\ UNCHANGED <<relaySide, proxySide>>

\* part_007:747, the retry timer of handleCalibration fires 500 ms after it was set
Retry(message) ==
    /\ message \in retries
    /\ handleCalibration(message, retries \ {message})
    /\ vrLast' = VrEvent("retry", NoHits, FALSE, FALSE, FALSE)
    /\ vrSent' = <<>>
    /\ gesture' = "none"
    /\ commitSent' = <<>>
    /\ UNCHANGED <<calibrated, gameStartedVR, latestScreenState, resuming, startVRCalls,
                   commits, curvedScreenTemplate, committed, grab>>
    /\ UNCHANGED <<relaySide, proxySide>>

\* part_007:104, the loader hands over led_wall.glb
TemplateLoaded ==
    /\ ~curvedScreenTemplate
    /\ curvedScreenTemplate' = TRUE
    /\ vrLast' = VrEvent("loaded", NoHits, FALSE, FALSE, FALSE)
    /\ vrSent' = <<>>
    /\ gesture' = "none"
    /\ commitSent' = <<>>
    /\ UNCHANGED <<calibrated, screenRect, screenWidth, screenHeight, aspectRatio,
                   gameStartedVR, latestScreenState, resuming, startVRCalls, commits,
                   rectangle, widgets, retries, committed, grab>>
    /\ UNCHANGED <<relaySide, proxySide>>

\* the aspect ratio kept when the display is lost
aspectAfterLoss_kept(aspect) == aspect

\* part_007:773, aspectRatio = null
aspectAfterLoss(aspect) == FALSE

\* part_007:761-774, the handler of SCREEN_DISCONNECTED
ResetCalibration ==
    /\ calibrated' = FALSE
    /\ screenRect' = FALSE
    /\ aspectRatio' = aspectAfterLoss(aspectRatio)
    /\ topLeftCorner' = DefaultTopLeft
    /\ bottomRightCorner' = DefaultBottomRight
    /\ rectXDistance' = JsonNull
    /\ rectYDistance' = NoRatio
    /\ vrLast' = VrEvent("reset", NoHits, FALSE, FALSE, FALSE)
    /\ vrSent' = <<>>
    /\ gesture' = "none"
    /\ commitSent' = <<>>
    /\ UNCHANGED <<screenWidth, screenHeight, gameStartedVR, latestScreenState, resuming,
                   startVRCalls, commits, curvedScreenTemplate, widgets, retries, committed,
                   grab>>
    /\ UNCHANGED <<relaySide, proxySide>>

\* part_008:739-789, the envelope sendVRState passes to cm.sendMessage for controller
\* i, <<>> when it returns or throws before
vrState(i, h, registered) ==
    IF ~trackable \/ h.kind \in {"absent", "miss", "nouv"} THEN <<>>
    ELSE LET canvasX == jsTimes(h.u, screenWidth)
             canvasY == jsTimes(oneMinus(h.v), screenHeight)
         IN IF ~publishable(canvasX, canvasY) \/ ~registered THEN <<>>
            ELSE << [type |-> "VR_CONTROLLER_STATE",
                     controllerType |-> IF i = 0 THEN "right" ELSE "left",
                     canvasX |-> Num(mathRound(canvasX)),
                     canvasY |-> Num(mathRound(canvasY))] >>

\* part_008:618-624 and 739-789, sendVRState(i, controller) of the page that sends
\* its controller state itself; it reads uv.x of a hit without UV data and throws
SendVRState(i, h, registered) ==
    /\ calibrated
    /\ vrSent' = vrState(i, h, registered)
    /\ vrLast' = VrEvent("sendVRState",
                         IF i = 0 THEN [right |-> h, left |-> Absent]
                         ELSE [right |-> Absent, left |-> h],
                         FALSE, FALSE,
                         trackable /\ (h.kind = "nouv" \/
                                       (vrState(i, h, TRUE) # <<>> /\ ~registered)))
    /\ gesture' = "none"
    /\ commitSent' = <<>>
    /\ UNCHANGED <<calibrated, screenRect, screenWidth, screenHeight, aspectRatio,
                   gameStartedVR, latestScreenState, resuming, startVRCalls, commits,
                   rectangle, curvedScreenTemplate, widgets, retries, committed, grab>>
    /\ UNCHANGED <<relaySide, proxySide>>

\* a report that arrives after the screen template was loaded, from a display whose
\* window has the size it had at its first report
SteadyReport(report) ==
    /\ curvedScreenTemplate
    /\ screenWidth \in {0, report.screenWidth}

\* the page that keeps the controller states for the game (part_007), in the runs
\* in which every report is a SteadyReport
NextVR ==
    \/ \E hits \in FrameHits, press \in Presses : Frame(hits, press)
    \/ CommitResume
    \/ \E report \in Reports : SteadyReport(report) /\ HandleCalibration(report)
    \/ TemplateLoaded
    \/ ResetCalibration

SpecVR == Init /\ [][NextVR]_vars

\* the page that sends the controller states (part_008), whose calibration steps are
\* the same, in the runs in which every report is a SteadyReport
NextSend ==
    \/ \E hits \in IdleHits, press \in Presses : Frame(hits, press)
    \/ CommitResume
    \/ \E report \in Reports : SteadyReport(report) /\ HandleCalibration(report)
    \/ TemplateLoaded
    \/ ResetCalibration
    \/ \E i \in {0, 1}, h \in Rays, registered \in BOOLEAN : SendVRState(i, h, registered)

SpecSend == Init /\ [][NextSend]_vars

\* the page under every order of reports, retry timers, the loading of the template,
\* frames with and without the right controller, drags and the loss of the display
NextCalib ==
    \/ \E hits \in IdleHits \cup {NoHits}, press \in Presses \cup Edits : Frame(hits, press)
    \/ CommitResume
    \/ \E report \in Reports : HandleCalibration(report)
    \/ \E report \in Reports : Retry(report)
    \/ TemplateLoaded
    \/ ResetCalibration

SpecCalib == Init /\ [][NextCalib]_vars

\* =================================================================== claims
\* helpers of the claims' formulas
WallEntries(clients) == { i \in 1..Len(clients) : clients[i].type = "WALL" }
HasWall(clients) == WallEntries(clients) # {}
WallWs(clients) == clients[CHOOSE i \in WallEntries(clients) : TRUE].ws

\* the last step handled (did not discard) a REGISTER_CLIENT for clientType ct
IsReg(ct) ==
    /\ last.kind = "message"
    /\ ~last.gated
    /\ last.raw.kind = "object"
    /\ last.raw.data.type = "REGISTER_CLIENT"
    /\ last.raw.data.clientType = ct

\* the last step handled an object envelope of the given type
IsMsg(type) ==
    /\ last.kind = "message"
    /\ ~last.gated
    /\ last.raw.kind = "object"
    /\ last.raw.data.type = type

\* the sendMessage calls of the last step that carry the given type to ws
CallsTo(calls, ws, type) ==
    { i \in 1..Len(calls) : calls[i].to = ws /\ calls[i].msg.type = type }
SentTo(ws, type) == CallsTo(sent, ws, type)
SentOf(type) == { i \in 1..Len(sent) : sent[i].msg.type = type }

\* C1: in every reachable state of the relay at most one entry of the client
\* table holds the WALL role.
C1_AtMostOneWall == Cardinality(WallEntries(connectedClients)) <= 1

\* C1 witness: a wall is registered and the relay has just handled a WALL
\* registration sent on another, already registered connection.
C1_Witness ==
    /\ IsReg("WALL")
    /\ Cardinality(WallEntries(connectedClients)) = 1
    /\ WallWs(connectedClients) # last.ws
    /\ mapHas(connectedClients, last.ws)

\* C2: a REGISTER_CLIENT for WALL handled while the table holds a WALL entry is
\* answered with exactly one message, REGISTRATION_ERROR to the requester, and
\* leaves the client table and the wall flag as they were.
C2_SecondWallRejected ==
    [][ (IsReg("WALL")' /\ HasWall(connectedClients)) =>
          /\ Len(sent') = 1
          /\ sent'[1].to = last'.ws
          /\ sent'[1].msg.type = "REGISTRATION_ERROR"
          /\ sent'[1].open
          /\ connectedClients' = connectedClients
          /\ wallRegistered' = wallRegistered ]_vars

\* C2 witness: a WALL registration from a connection that is not the wall has just
\* been refused.
C2_Witness ==
    /\ IsReg("WALL")
    /\ SentTo(last.ws, "REGISTRATION_ERROR") # {}
    /\ HasWall(connectedClients)
    /\ WallWs(connectedClients) # last.ws
    /\ ~mapHas(connectedClients, last.ws)

\* the entries of a table that do not hold the WALL role
NonWall(clients) == { i \in 1..Len(clients) : clients[i].type # "WALL" }

\* C3: when a WALL registration succeeds while N non-WALL clients are in the
\* table, the relay sends the new wall exactly N NEW_CLIENT messages, one per
\* client that was in the table, carrying its role and session ID.
C3_CatchUpExact ==
    [][ (IsReg("WALL")' /\ SentTo(last.ws, "REGISTRATION_SUCCESS")' # {}) =>
          /\ Cardinality(SentOf("NEW_CLIENT")') = Cardinality(NonWall(connectedClients))
          /\ \A i \in NonWall(connectedClients) :
                Cardinality({ k \in SentTo(last.ws, "NEW_CLIENT")' :
                                /\ sent'[k].msg.role = connectedClients[i].type
                                /\ sent'[k].msg.userID = connectedClients[i].userID }) = 1
       ]_vars

\* the VR entries of a table
VrEntries(clients) == { i \in 1..Len(clients) : clients[i].type = "VR" }

\* C4: when the connection holding the WALL entry closes, sendMessage is called
\* with WALL_DISCONNECTED once for every VR entry of the table and for nothing
\* else, and the notice is written to every such socket that is OPEN.
C4_LossNoticeToEveryVR ==
    [][ ( /\ last'.kind = "close"
          /\ mapHas(connectedClients, last'.ws)
          /\ mapGet(connectedClients, last'.ws).type = "WALL" ) =>
          /\ \A k \in 1..Len(sent') :
                /\ sent'[k].msg.type = "WALL_DISCONNECTED"
                /\ \E i \in VrEntries(connectedClients) : connectedClients[i].ws = sent'[k].to
          /\ \A i \in VrEntries(connectedClients) :
                /\ Cardinality(CallsTo(sent', connectedClients[i].ws, "WALL_DISCONNECTED")) = 1
                /\ \A k \in CallsTo(sent', connectedClients[i].ws, "WALL_DISCONNECTED") :
                      sent'[k].open = (readyState[connectedClients[i].ws] = "OPEN")
       ]_vars

\* C4 witness: the wall has just left a table that holds a VR and a DESKTOP
\* client, and exactly one notice went out.
C4_Witness ==
    /\ last.kind = "close"
    /\ Cardinality(SentOf("WALL_DISCONNECTED")) = 1
    /\ Len(sent) = 1
    /\ sent[1].open
    /\ \E i, j \in 1..Len(connectedClients) :
          connectedClients[i].type = "VR" /\ connectedClients[j].type = "DESKTOP"

\* C5: the first WALL registration the relay handles after it removed the WALL
\* entry of a closed connection is answered with REGISTRATION_SUCCESS, whichever
\* connection sends it, and that connection then holds the WALL entry.
C5_WallFreeAfterLoss ==
    (IsReg("WALL") /\ displayLost = "retaken") =>
        /\ Len(sent) >= 1
        /\ sent[1].to = last.ws
        /\ sent[1].msg.type = "REGISTRATION_SUCCESS"
        /\ sent[1].open
        /\ mapHas(connectedClients, last.ws)
        /\ mapGet(connectedClients, last.ws).type = "WALL"
        /\ wallRegistered

\* C5 witness: a connection re-takes the wall role after a wall left.
C5_Witness ==
    /\ IsReg("WALL")
    /\ displayLost = "retaken"
    /\ SentTo(last.ws, "REGISTRATION_SUCCESS") # {}

\* the entries of a wall's membership log about connection c
LogAbout(w, c, type) ==
    { k \in 1..Len(membershipLog[w]) :
        membershipLog[w][k].about = c /\ membershipLog[w][k].type = type }

\* C6: for a non-WALL client that registered while a wall was registered and
\* left while that wall was still registered, the wall was sent exactly one
\* NEW_CLIENT and afterwards exactly one CLIENT_DISCONNECTED, with the same role
\* and session ID.
C6_OneJoinOneLeave ==
    \A w \in Conns, c \in Conns :
        ( /\ \E k \in LogAbout(w, c, "NEW_CLIENT") : membershipLog[w][k].via = "join"
          /\ ~mapHas(connectedClients, c)
          /\ readyState[c] = "CLOSED"
          /\ mapHas(connectedClients, w) /\ mapGet(connectedClients, w).type = "WALL" ) =>
        /\ Cardinality(LogAbout(w, c, "NEW_CLIENT")) = 1
        /\ Cardinality(LogAbout(w, c, "CLIENT_DISCONNECTED")) = 1
        /\ \A k \in LogAbout(w, c, "NEW_CLIENT"), l \in LogAbout(w, c, "CLIENT_DISCONNECTED") :
              /\ k < l
              /\ membershipLog[w][k].role = membershipLog[w][l].role
              /\ membershipLog[w][k].userID = membershipLog[w][l].userID

\* C7: a REGISTER_CLIENT handled on a connection that already has a table entry
\* leaves the table as it was: the connection keeps its one entry with its role
\* and session ID.
C7_ReRegistrationIgnored ==
    [][ ( /\ last'.kind = "message" /\ ~last'.gated
          /\ last'.raw.kind = "object"
          /\ last'.raw.data.type = "REGISTER_CLIENT"
          /\ mapHas(connectedClients, last'.ws) ) =>
          connectedClients' = connectedClients ]_vars

\* the inbound messages that are protocol errors: text that is not JSON, JSON that
\* is no envelope, an envelope without type or of a type outside the protocol, and
\* a REGISTER_CLIENT whose role is missing or unknown to the relay
ProtocolError(raw) ==
    \/ raw.kind \in {"invalid", "null"}
    \/ /\ raw.kind = "object"
       /\ \/ raw.data.type \in {Missing, "BOGUS"}
          \/ /\ raw.data.type = "REGISTER_CLIENT"
             /\ raw.data.clientType \notin {"WALL", "VR", "DESKTOP"}

\* the last step answered its sender with exactly one message, an ERROR written
\* to the socket
ErrorReplied ==
    /\ Len(sent) = 1
    /\ sent[1].to = last.ws
    /\ sent[1].msg.type = "ERROR"
    /\ sent[1].open

\* C8 as claimed: in any relay state, an inbound protocol error produces an
\* ERROR reply to its sender.
C8_ErrorAlwaysReplied ==
    (last.kind = "message" /\ ProtocolError(last.raw)) => ErrorReplied

\* C8 as amended: an inbound protocol error received while the relay is not
\* shutting down produces an ERROR reply to its sender.
C8_ErrorRepliedWhileServing ==
    (last.kind = "message" /\ ProtocolError(last.raw) /\ ~isShuttingDown) => ErrorReplied

\* C8 witness: an envelope of an unknown type has just been answered with ERROR.
C8_Witness ==
    /\ last.kind = "message"
    /\ last.raw.kind = "object"
    /\ last.raw.data.type = "BOGUS"
    /\ ~isShuttingDown
    /\ ErrorReplied

\* C9: a GAME_EVENT handled from a registered client is passed to sendMessage
\* for every client of the table, the sender included.
C9_GameEventFanOut ==
    (IsMsg("GAME_EVENT") /\ mapHas(connectedClients, last.ws)) =>
        \A i \in 1..Len(connectedClients) :
            SentTo(connectedClients[i].ws, "GAME_EVENT") # {}

\* C10: a CALIBRATION_COMMIT handled from a registered VR client while a wall is
\* registered is passed to sendMessage for the wall, carrying the rectangle of the
\* committed the client committed, field for field.
C10_CommitDelivered ==
    ( /\ IsMsg("CALIBRATION_COMMIT")
      /\ mapHas(connectedClients, last.ws)
      /\ mapGet(connectedClients, last.ws).type = "VR"
      /\ HasWall(connectedClients) ) =>
        \E k \in SentTo(WallWs(connectedClients), "CALIBRATION_COMMIT") :
            \E r \in Snapshots :
                /\ commitEnvelope(r) = last.raw.data
                /\ sent[k].msg.body = r

\* C11: a VR_CONTROLLER_STATE that arrives while no wall is registered causes no
\* sendMessage call that carries it, and whenever the relay does pass a
\* VR_CONTROLLER_STATE to sendMessage it is in the step that handles one, once, to
\* the wall: no other step, a WALL registration included, sends one.
C11_ControllerStateDropped ==
    /\ ( /\ last.kind = "message"
         /\ last.raw.kind = "object"
         /\ last.raw.data.type = "VR_CONTROLLER_STATE"
         /\ (~HasWall(connectedClients) \/ ~wallRegistered) ) =>
            SentOf("VR_CONTROLLER_STATE") = {}
    /\ SentOf("VR_CONTROLLER_STATE") # {} =>
            /\ IsMsg("VR_CONTROLLER_STATE")
            /\ Len(sent) = 1
            /\ HasWall(connectedClients)
            /\ sent[1].to = WallWs(connectedClients)

\* C11 witness: a registered VR client has just sent its controller state while no
\* wall is registered, and the relay sent nothing.
C11_Witness ==
    /\ IsMsg("VR_CONTROLLER_STATE")
    /\ mapHas(connectedClients, last.ws)
    /\ mapGet(connectedClients, last.ws).type = "VR"
    /\ ~HasWall(connectedClients)
    /\ ~wallRegistered
    /\ sent = <<>>

\* the walls whose membership log has a NEW_CLIENT about connection c
ToldOf(c) == { w \in Conns : LogAbout(w, c, "NEW_CLIENT") # {} }

\* C12: a VR client that registered once, while a wall was registered, is written
\* the wall's dimension report at most once.
C12_ReportOnce ==
    \A c \in Conns :
        ( /\ mapHas(connectedClients, c)
          /\ mapGet(connectedClients, c).type = "VR"
          /\ Cardinality(ToldOf(c)) = 1
          /\ \A w \in ToldOf(c) :
                /\ Cardinality(LogAbout(w, c, "NEW_CLIENT")) = 1
                /\ \A k \in LogAbout(w, c, "NEW_CLIENT") : membershipLog[w][k].via = "join" ) =>
        reports[c] <= 1

\* C18: a WALL_CALIBRATION is forwarded only when its sender holds the WALL entry,
\* and a VR_CONTROLLER_STATE only when its sender holds a VR or DESKTOP entry.
C18_SenderRoleChecked ==
    /\ (IsMsg("WALL_CALIBRATION") /\ SentOf("WALL_CALIBRATION") # {}) =>
            /\ mapHas(connectedClients, last.ws)
            /\ mapGet(connectedClients, last.ws).type = "WALL"
    /\ (IsMsg("VR_CONTROLLER_STATE") /\ SentOf("VR_CONTROLLER_STATE") # {}) =>
            /\ mapHas(connectedClients, last.ws)
            /\ mapGet(connectedClients, last.ws).type \in {"VR", "DESKTOP"}

\* C19: with no termination signal, no sequence of client messages and disconnects
\* makes a callback of the relay throw past its handler or starts handleShutdown.
C19_NoUncaughtException ==
    /\ ~isShuttingDown
    /\ proc = "running"
    /\ ~(last.kind = "close" /\ last.gated)

\* the proxy is registered and the socket it holds is open
ProxyReady ==
    /\ connectionState = "registered"
    /\ cmWs # Null
    /\ socketState[cmWs] = "OPEN"

\* C15: a sendMessage call made while the proxy state is not 'registered' or its
\* socket is not open throws and passes nothing to the socket; a call made while
\* registered and open passes the message to the socket; and no other step of the
\* proxy transmits an application message, so nothing was kept for later.
C15_SendFailsFast ==
    [][ /\ (cmLast'.kind = "send" /\ ~ProxyReady) =>
              (cmLast'.threw /\ cmSent' = <<>>)
        /\ (cmLast'.kind = "send" /\ ProxyReady) =>
              (~cmLast'.threw /\ cmSent' = <<[on |-> cmWs, type |-> "APP"]>>)
        /\ (\E i \in 1..Len(cmSent') : cmSent'[i].type = "APP") =>
              (cmLast'.kind = "send" /\ ~cmLast'.threw)
      ]_vars

\* C15 witness: sendMessage has just thrown in state 'registered', on a socket that
\* is closing.
C15_Witness ==
    /\ cmLast.kind = "send"
    /\ cmLast.threw
    /\ connectionState = "registered"
    /\ cmWs # Null
    /\ socketState[cmWs] = "CLOSING"
    /\ cmSent = <<>>

\* C16: when the socket a registerToServer call opened is lost (its 'error' or
\* 'close' event reaches the proxy) while the promise of the call is pending, the
\* promise is rejected and the proxy state becomes 'disconnected'.
C16_FailureRejects ==
    [][ \A k \in Calls :
          ( /\ cmLast'.kind \in {"close", "error"}
            /\ cmLast'.call = k
            /\ listening[k]
            /\ promise[k] = "pending" ) =>
              (promise'[k] = "rejected" /\ connectionState' = "disconnected")
      ]_vars

\* C17: the promise of a registerToServer call becomes resolved only in the step
\* that receives REGISTRATION_SUCCESS on the socket the call opened, and the proxy
\* state is then 'registered'; a pending promise is rejected by the step that
\* receives REGISTRATION_ERROR on that socket and by the step in which the
\* registration timeout of the call fires.
C17_SettledByReplyOrTimeout ==
    [][ \A k \in Calls :
          /\ (promise[k] # "resolved" /\ promise'[k] = "resolved") =>
                /\ cmLast' = CmEvent("message", k, "REGISTRATION_SUCCESS", FALSE)
                /\ socketState[k] = "OPEN"
                /\ connectionState' = "registered"
          /\ ( /\ promise[k] = "pending"
               /\ \/ cmLast' = CmEvent("message", k, "REGISTRATION_ERROR", FALSE)
                  \/ cmLast' = CmEvent("timeout", k, "", FALSE) ) =>
                promise'[k] = "rejected"
      ]_vars

\* C17 witness: the second call has just been resolved by REGISTRATION_SUCCESS after
\* the first was rejected.
C17_Witness ==
    /\ cmLast = CmEvent("message", 2, "REGISTRATION_SUCCESS", FALSE)
    /\ promise[1] = "rejected"
    /\ promise[2] = "resolved"
    /\ connectionState = "registered"

\* The controller states the last step published with pixel coordinates, each with
\* the hit it was computed from: the entries of latestScreenState after a frame
\* and the envelopes of sendVRState.
Published ==
    { [canvasX |-> latestScreenState[side].canvasX, canvasY |-> latestScreenState[side].canvasY,
       u |-> vrLast.hits[side].u, v |-> vrLast.hits[side].v] :
        side \in { x \in {"right", "left"} :
                     vrLast.kind = "frame" /\ latestScreenState[x].onScreen } }
    \cup { [canvasX |-> vrSent[i].canvasX, canvasY |-> vrSent[i].canvasY,
            u |-> vrLast.hits[vrSent[i].controllerType].u,
            v |-> vrLast.hits[vrSent[i].controllerType].v] : i \in DOMAIN vrSent }

\* C13 as stated: the published pixel coordinates of a hit at (u, v) are exactly
\* canvasX = u * screenWidth and canvasY = (1 - v) * screenHeight.
C13_ExactProduct ==
    \A st \in Published :
        /\ st.canvasX.v * UDen = st.u.v * screenWidth
        /\ st.canvasY.v * UDen = (UDen - st.v.v) * screenHeight

\* C13: the published pixel coordinates of a hit at (u, v) are the integers nearest
\* to u * screenWidth and (1 - v) * screenHeight, a half rounding up; for 1920 by
\* 1080, u = 0.25 and v = 0.75 they are (480, 270).
C13_RoundedProduct ==
    \A st \in Published :
        /\ st.canvasX.k = "number" /\ st.canvasY.k = "number"
        /\ 2 * UDen * st.canvasX.v <= 2 * st.u.v * screenWidth + UDen
        /\ 2 * st.u.v * screenWidth + UDen < 2 * UDen * (st.canvasX.v + 1)
        /\ 2 * UDen * st.canvasY.v <= 2 * (UDen - st.v.v) * screenHeight + UDen
        /\ 2 * (UDen - st.v.v) * screenHeight + UDen < 2 * UDen * (st.canvasY.v + 1)
        /\ (/\ screenWidth = 1920 /\ screenHeight = 1080
            /\ 4 * st.u.v = UDen /\ 4 * st.v.v = 3 * UDen)
           => (st.canvasX.v = 480 /\ st.canvasY.v = 270)

C13_Witness ==
    /\ vrLast.kind = "frame"
    /\ screenWidth = 1920 /\ screenHeight = 1080
    /\ vrLast.hits.right = Ray("hit", Frac(1), Frac(3))
    /\ latestScreenState.right.onScreen
    /\ latestScreenState.right.canvasX = Num(480)
    /\ latestScreenState.right.canvasY = Num(270)

\* a controller state carries pixel coordinates
carries(st) == st.canvasX # Undefined \/ st.canvasY # Undefined

\* the ray hits the screen and both computed coordinates are numbers
onDisplay(ray, W, H) ==
    /\ ray.kind = "hit"
    /\ ~isNaN(jsTimes(ray.u, W))
    /\ ~isNaN(jsTimes(oneMinus(ray.v), H))

\* C14: a frame publishes a controller state with pixel coordinates only when the
\* calibration was committed before the frame, the ray hits the screen and both
\* computed coordinates are numbers.
C14_NoPixelsOffDisplay ==
    [][ /\ vrLast'.kind = "frame" =>
              \A side \in {"right", "left"} :
                  carries(latestScreenState'[side]) =>
                      calibrated /\ onDisplay(vrLast'.hits[side], screenWidth, screenHeight)
        /\ vrLast'.kind = "sendVRState" =>
              \A i \in DOMAIN vrSent' :
                  carries(vrSent'[i]) =>
                      /\ calibrated
                      /\ onDisplay(vrLast'.hits[vrSent'[i].controllerType],
                                   screenWidth, screenHeight) ]_vars

C14_Witness ==
    /\ vrLast.kind = "sendVRState"
    /\ trackable
    /\ vrLast.hits.right.kind = "hit"
    /\ vrLast.hits.right.u = NaN
    /\ ~vrLast.threw
    /\ vrSent = <<>>

\* C20: startVR is invoked at most once, in the frame of the first calibration
\* commit, and updateVR is invoked only in frames after the one that invoked startVR.
C20_StartOnceBeforeUpdate ==
    [][ /\ startVRCalls' <= 1
        /\ startVRCalls' # startVRCalls =>
              (vrLast'.kind = "frame" /\ vrLast'.startVR /\ commits = 0 /\ commits' = 1)
        /\ vrLast'.startVR => startVRCalls' # startVRCalls
        /\ vrLast'.updateVR => startVRCalls >= 1 ]_vars

C20_Witness ==
    /\ vrLast.kind = "frame"
    /\ vrLast.updateVR
    /\ calibrated
    /\ commits = 2
    /\ startVRCalls = 1
    /\ screenWidth = 1366

\* C21 as stated: once the shutdown began no connection is accepted, and the
\* listeners are closed (wss.close() is called) only when every connection that was
\* open, registered or not, is closed.
C21_DrainBeforeListenersClose ==
    [][ /\ (\E c \in Conns : readyState[c] = "NONE" /\ readyState'[c] = "OPEN")
              => ~isShuttingDown
        /\ (proc # "closingWss" /\ proc' = "closingWss")
              => \A c \in Conns : readyState'[c] \in {"NONE", "CLOSED"} ]_vars

\* C22: the process exits with status 0 only from the callback of server.close(),
\* after the drain and wss.close() completed, and with status 1 when the forceExit
\* timer fires; a signal during the shutdown changes nothing; and once the shutdown
\* has started the process eventually exits.
C22_ShutdownTerminates ==
    /\ [][ /\ (proc # "exit0" /\ proc' = "exit0")
                 => /\ proc = "closingHttp" /\ last'.kind = "httpClosed"
                    /\ awaiting = Null
                    /\ \A c \in Conns : readyState[c] # "CLOSING"
           /\ (proc # "closingHttp" /\ proc' = "closingHttp") => proc = "closingWss"
           /\ (last'.kind = "forceExit" /\ proc' # proc) => proc' = "exit1"
           /\ (isShuttingDown /\ last'.kind = "shutdown" /\ last' # last)
                 => UNCHANGED <<connectedClients, wallRegistered, isShuttingDown,
                                readyState, proc, drainPos, awaiting>> ]_vars
    /\ (isShuttingDown ~> Exited)

C22_Witness ==
    /\ proc = "exit0"
    /\ isShuttingDown
    /\ \E c \in Conns : readyState[c] = "CLOSED"

\* C23 as stated: wallRegistered is true exactly when the table holds a WALL entry,
\* so that getWallClient() returns a connection whenever the flag is up.
C23_WallFlagMatchesTable ==
    /\ wallRegistered <=> HasWall(connectedClients)
    /\ wallRegistered => getWallClient(connectedClients, wallRegistered) # Null

\* C24 as stated: the registration timeout of a call whose socket the proxy no
\* longer holds changes neither the proxy state nor any socket, and the proxy leaves
\* 'registered' only by the close or error of the socket it holds, by disconnect()
\* or by a new registerToServer call.
C24_TimerOwnConnectionOnly ==
    [][ /\ (cmLast'.kind = "timeout" /\ cmLast' # cmLast /\ cmWs # cmLast'.call)
              => (connectionState' = connectionState /\ socketState' = socketState)
        /\ (connectionState = "registered" /\ connectionState' # "registered")
              => \/ cmLast'.kind \in {"close", "error"} /\ cmLast'.call = cmWs
                 \/ cmLast'.kind \in {"disconnect", "register"} ]_vars

\* C25: the handler of the display-lost notice leaves the page awaiting dimensions
\* (calibrated false, aspectRatio null) with the rectangle gone: no mesh, the
\* corners back at their defaults, both distances null; and while the page awaits
\* dimensions a frame publishes no pixel coordinates and sends no commit.
C25_LossDiscardsRectangle ==
    [][ /\ vrLast'.kind = "reset" =>
              /\ ~calibrated' /\ ~aspectRatio' /\ ~screenRect'
              /\ topLeftCorner' = DefaultTopLeft
              /\ bottomRightCorner' = DefaultBottomRight
              /\ rectXDistance' = JsonNull /\ rectYDistance' = NoRatio
              /\ ~trackable'
        /\ (~aspectRatio /\ vrLast'.kind = "frame") =>
              /\ latestScreenState' = [right |-> OffScreen, left |-> OffScreen]
              /\ commitSent' = <<>>
              /\ ~calibrated' ]_vars

C25_Witness ==
    /\ vrLast.kind = "reset"
    /\ commits = 1
    /\ committed # NoRect
    /\ gameStartedVR
    /\ ~calibrated /\ ~aspectRatio
    /\ topLeftCorner = DefaultTopLeft

\* C26 as stated: a page that awaits dimensions gets its aspect ratio and its
\* rectangle only from the handler of a report that arrives then, not from a retry
\* timer, and sends no commit while it waits.
C26_AwaitsFreshReport ==
    [][ /\ (~aspectRatio /\ (aspectRatio' \/ screenRect')) => vrLast'.kind = "calibration"
        /\ ~aspectRatio => commitSent' = <<>> ]_vars

\* the rectangle handleCalibration seeds for the dimensions the page holds
Seeded ==
    /\ topLeftCorner = SeedTopLeft(screenWidth, screenHeight)
    /\ bottomRightCorner = SeedBottomRight(screenWidth, screenHeight)
    /\ rectXDistance = Num(10)
    /\ rectYDistance = over(10, screenWidth, screenHeight)

\* C27 as stated: before the first commit, the rectangle a page gets while it is
\* not committed is the seeded one, 1 wide and 1 / aspectRatio high.
C27_SeededOnEntry ==
    [][ (~screenRect /\ screenRect' /\ ~calibrated' /\ commits' = 0) => Seeded' ]_vars

\* C28 as stated: a frame in which the trigger goes down on the confirm ball in
\* Editing either passes one
\* CALIBRATION_COMMIT with the current corners and distances to cm.sendMessage and
\* sets calibrated, or, when cm.sendMessage throws, leaves the page in Editing with
\* its rectangle; calibrated is set in no other step, and no other step sends a commit.
C28_CommitSentBeforeCommitted ==
    [][ /\ gesture' = "confirm" =>
              IF vrLast'.threw
              THEN /\ ~calibrated' /\ aspectRatio' /\ commitSent' = <<>>
                   /\ rectangle' = rectangle
              ELSE /\ calibrated'
                   /\ commitSent' = << Rect(topLeftCorner, bottomRightCorner,
                                            rectXDistance, rectYDistance) >>
        /\ (~calibrated /\ calibrated') => (gesture' = "confirm" /\ Len(commitSent') = 1)
        /\ commitSent' # <<>> => (~calibrated /\ aspectRatio /\ calibrated') ]_vars

\* C29 as stated: the recalibrate gesture leaves the page in Editing with the corners
\* of the last commit, and while the page stays in Editing with those corners only a
\* drag changes them.
C29_RecalibrateRestoresSnapshot ==
    [][ /\ gesture' = "recalibrate" =>
              /\ ~calibrated' /\ aspectRatio'
              /\ topLeftCorner' = committed.topLeftCorner
              /\ bottomRightCorner' = committed.bottomRightCorner
        /\ ( /\ ~calibrated /\ aspectRatio /\ ~calibrated' /\ aspectRatio'
             /\ commits >= 1
             /\ topLeftCorner = committed.topLeftCorner
             /\ bottomRightCorner = committed.bottomRightCorner
             /\ <<topLeftCorner', bottomRightCorner'>> # <<topLeftCorner, bottomRightCorner>> )
              => gesture' = "drag" ]_vars

\* C30 as stated: from one step to the next the aspect ratio, once set, stays what
\* it is until the display-lost notice sets it to null.
C30_AspectFixedUntilLoss ==
    [][ (aspectRatio /\ aspectRatio')
           => screenWidth' * screenHeight = screenWidth * screenHeight' ]_vars

\* the distances of rectangle r are the ones its corners and the dimensions W, H give
Measured(r, W, H) ==
    /\ r.rectXDistance = Num(span(r.topLeftCorner, r.bottomRightCorner))
    /\ r.rectYDistance = over(span(r.topLeftCorner, r.bottomRightCorner), W, H)

\* C31 as stated: after every frame that applies a grab to the corners, and in every
\* CALIBRATION_COMMIT sent, rectXDistance is the horizontal distance of the two
\* corners and rectYDistance is rectXDistance divided by the aspect ratio the page
\* holds.
C31_DistancesFollowCorners ==
    [][ /\ gesture' = "drag" =>
              Measured(Rect(topLeftCorner', bottomRightCorner', rectXDistance',
                            rectYDistance'), screenWidth', screenHeight')
        /\ commitSent' # <<>> => Measured(commitSent'[1], screenWidth, screenHeight) ]_vars

\* C32: while the page is committed, no step other than the display-lost notice
\* changes the corners, the distances, the dimensions or the aspect ratio, and the
\* page leaves Committed only by the recalibrate gesture or that notice.
C32_CommittedReadOnly ==
    [][ calibrated =>
          /\ vrLast'.kind # "reset" =>
                UNCHANGED <<rectangle, screenWidth, screenHeight, aspectRatio>>
          /\ ~calibrated' => (vrLast'.kind = "reset" \/ gesture' = "recalibrate") ]_vars

C32_Witness ==
    /\ calibrated
    /\ vrLast.kind = "calibration"
    /\ topLeftCorner = committed.topLeftCorner
    /\ topLeftCorner # SeedTopLeft(screenWidth, screenHeight)

\* C33 as stated: whenever the page is in Editing (aspect ratio set, not committed)
\* the widgets and the confirm ball are spawned and visible.
C33_EditingHasWidgets == (~calibrated /\ aspectRatio) => widgets

\* C34 as stated: a widget is grabbed only while the page is in Editing.
C34_GrabOnlyInEditing ==
    (grabbedWidget \/ grabState # NoGrab) => (~calibrated /\ aspectRatio)

\* C36 as stated: when sendVRState runs for a tracked controller of a committed page
\* and the ray is off the screen, one controller state is published, without pixel
\* coordinates; and a frame of a committed page keeps no pixel coordinates for a
\* controller whose ray is off the screen.
C36_OffDisplayMinimalState ==
    [][ /\ ( /\ vrLast'.kind = "sendVRState"
             /\ trackable
             /\ \E side \in {"right", "left"} : vrLast'.hits[side].kind = "miss" )
              => /\ Len(vrSent') = 1
                 /\ ~carries(vrSent'[1])
        /\ ( /\ vrLast'.kind = "frame"
             /\ trackable )
              => \A side \in {"right", "left"} :
                    vrLast'.hits[side].kind = "miss"
                       => /\ ~latestScreenState'[side].onScreen
                          /\ ~carries(latestScreenState'[side]) ]_vars

\* the session IDs a websocket was sent in NEW_CLIENT, and in CLIENT_DISCONNECTED
Joined(w) ==
    { membershipLog[w][k].userID :
        k \in { j \in 1..Len(membershipLog[w]) : membershipLog[w][j].type = "NEW_CLIENT" } }
Left(w) ==
    { membershipLog[w][k].userID :
        k \in { j \in 1..Len(membershipLog[w]) :
                  membershipLog[w][j].type = "CLIENT_DISCONNECTED" } }

\* C37 as stated: between two callbacks, while a wall is registered, the session IDs
\* the wall was sent in NEW_CLIENT and not in CLIENT_DISCONNECTED are the session IDs
\* of the non-WALL entries of the table.
C37_DisplayViewMatchesTable ==
    \A w \in Conns :
        ( /\ wallRegistered
          /\ mapHas(connectedClients, w)
          /\ mapGet(connectedClients, w).type = "WALL" )
          => Joined(w) \ Left(w)
                = { connectedClients[i].userID : i \in NonWall(connectedClients) }

\* C38: every VR_CONTROLLER_STATE the relay passes to sendMessage is the payload of
\* the message it handles with userID set to the session ID the table holds for the
\* connection that sent it.
C38_ForwardedStateCarriesSenderID ==
    \A k \in SentOf("VR_CONTROLLER_STATE") :
        /\ IsMsg("VR_CONTROLLER_STATE")
        /\ mapHas(connectedClients, last.ws)
        /\ sent[k].msg.body.userID = mapGet(connectedClients, last.ws).userID
        /\ sent[k].msg.body.body = last.raw.data.message.body

\* C38 witness: a client has sent a state with the session ID of another client in
\* its payload, and the relay forwarded it.
C38_Witness ==
    /\ IsMsg("VR_CONTROLLER_STATE")
    /\ SentOf("VR_CONTROLLER_STATE") # {}
    /\ mapHas(connectedClients, last.ws)
    /\ last.raw.data.message.userID # mapGet(connectedClients, last.ws).userID
    /\ \E i \in 1..Len(connectedClients) :
          /\ connectedClients[i].ws # last.ws
          /\ connectedClients[i].userID = last.raw.data.message.userID

\* the envelope types for which the page has no handler and which are not the
\* proxy's own registration replies
Unhandled == (ServerMessages \ {Missing, "<invalid>"})
                 \ (eventActions \cup {"REGISTRATION_SUCCESS", "REGISTRATION_ERROR"})

\* C35 as stated: after the proxy has taken an envelope whose type has no handler
\* registered for its role, no handler has run, nothing was raised and nothing was
\* sent back to the relay.
C35_UnhandledTypeSilent ==
    (cmLast.kind = "message" /\ cmLast.msg \in Unhandled) =>
        /\ cmRan = <<>>
        /\ ~cmLast.threw
        /\ cmSent = <<>>

\* the relay for one connection under REGISTER_CLIENT of an input client, ERROR,
\* unrecognised and malformed envelopes, beside the session proxy of a page
ErrorTraffic ==
    { raw \in RawMessages :
         \/ raw.kind # "object"
         \/ raw.data.type \in {Missing, "ERROR", "BOGUS"}
         \/ raw.data.type = "REGISTER_CLIENT" /\ raw.data.clientType = "VR" }

NextErrors ==
    \/ Connect(1)
    \/ \E raw \in ErrorTraffic : (drawsID(raw) => nextID <= 1) /\ OnMessage(1, raw)
    \/ NextProxy

SpecErrors == Init /\ [][NextErrors]_vars

\* C39: the relay sends nothing in the step that takes an ERROR envelope, and the
\* session proxy sends nothing in the step that takes one; what either sends in
\* answer to any one envelope of SpecErrors is at most one message, to the peer the
\* envelope came from, so an exchange started by a malformed or unrecognised
\* envelope is that envelope, one ERROR, and silence.
C39_ErrorNeverAnswered ==
    /\ IsMsg("ERROR") => sent = <<>>
    /\ (cmLast.kind = "message" /\ cmLast.msg = "ERROR") => cmSent = <<>>
    /\ last.kind = "message" =>
          /\ Len(sent) <= 1
          /\ \A i \in 1..Len(sent) : sent[i].to = last.ws
    /\ cmLast.kind = "message" =>
          /\ Len(cmSent) <= 1
          /\ \A i \in 1..Len(cmSent) : cmSent[i].on = cmLast.call

\* an ERROR envelope has been taken by the relay on an OPEN connection and by a
\* registered proxy on an OPEN socket, either of which could have sent
C39_Witness ==
    /\ IsMsg("ERROR")
    /\ readyState[last.ws] = "OPEN"
    /\ sent = <<>>
    /\ cmLast.kind = "message"
    /\ cmLast.msg = "ERROR"
    /\ connectionState = "registered"
    /\ cmWs = cmLast.call
    /\ socketState[cmWs] = "OPEN"
    /\ cmSent = <<>>

\* C40 as stated: every call of the page's CLOSE handler after a socket close or
\* error finds getConnectionState() reporting state 'disconnected' and clientType
\* null.
C40_CloseHandlerSeesDisconnected ==
    \A i \in 1..Len(cmRan) :
        cmRan[i].type = "CLOSE" =>
            /\ cmRan[i].state = "disconnected"
            /\ cmRan[i].clientType = "null"

====
